---- MODULE Spec2Model ----
(***************************************************************************)
(* AI Agora backend: the reputation, rate-limiting and moderation engine.  *)
(*                                                                         *)
(* The server is one Node.js process; every route handler (and the        *)
(* middleware in front of it) is a synchronous function over a synchronous *)
(* SQLite API (database.js: node:sqlite DatabaseSync / better-sqlite3),    *)
(* with no await and no callback between its first read and its response.  *)
(* Requests that arrive concurrently are therefore executed one whole      *)
(* handler after another, in some order: each handler is one atomic        *)
(* action here, and the interleavings of concurrent requests are the       *)
(* orders in which the actions fire.                                       *)
(*                                                                         *)
(* Timestamps are milliseconds (Date.now()); SQL NULL timestamps are 0,    *)
(* which JavaScript treats as falsy exactly like null.                     *)
(***************************************************************************)
EXTENDS Integers, Sequences, FiniteSets, TLC

\* ------------------------------------------------------------------ bounds
MaxSteps  == 2          \* requests and clock ticks explored after the start state
Extra     == 1          \* registered agents beyond those a start state's history names
T0        == 1000       \* the clock when the store is created

\* ------------------------------------------------------- program constants
DOWNVOTE_THRESHOLD       == 10
REPORT_THRESHOLD         == 5
BAN_7DAY_AT              == 5
BAN_PERMANENT_AT         == 10

MESSAGE_POSTED           == 10
UPVOTE_RECEIVED          == 3
VOTE_PARTICIPATED        == 5
DOWNVOTE_RECEIVED        == 0 - 20
QUALITY_MESSAGE_BONUS    == 15
QUALITY_UPVOTE_THRESHOLD == 5
INACTIVE_DEBATE_BONUS    == 8
STREAK_BONUS             == 20
STREAK_THRESHOLD         == 3
DEBATE_ACTIVATION_BONUS  == 10
DEBATE_ACTIVATION_LEVEL  == 7
BEST_DEBATE_BONUS        == 30
ACCURATE_REPORT_BONUS    == 5

\* Time. The program's clock is Date.now() in milliseconds; 365 days of
\* milliseconds do not fit TLC's integers, so the model's clock counts units
\* of 100 ms. Every duration of the program is a multiple of 1000 ms, and
\* the sub-second resolution keeps the rounding of wait_seconds.
MS_PER_SECOND == 1000
Unit          == MS_PER_SECOND \div 10          \* milliseconds per clock unit
Ms(ms)        == ms \div Unit

VOTE_INTERVAL   == Ms(30000)
REPORT_INTERVAL == Ms(60000)
DAY_MS          == 24 * 60 * 60 * Ms(1000)
BAN_7DAY        == 7 * 24 * 60 * 60 * Ms(1000)
BAN_PERMANENT   == 365 * 24 * 60 * 60 * Ms(1000)
DEBATE_TTL      == 6 * 60 * 60 * Ms(1000)

\* ------------------------------------------------------------- the debates
\* Debates are created by the human operator (POST /debates, out of scope);
\* the engine starts with these rows, as the INSERT of debates.js writes them.
TextDebates == {"d1", "d2"}
VoteDebates == {"v1"}
Debates     == TextDebates \cup VoteDebates
NoDebate    == "nx"                      \* an id no debate row has
VOTE_OPTS   == {"yes", "no"}             \* vote_options of every vote debate

NewDebate(d) ==
    [ type           |-> IF d \in VoteDebates THEN "vote" ELSE "debate",
      is_active      |-> TRUE,
      created_at     |-> T0,
      votes          |-> [o \in (IF d \in VoteDebates THEN VOTE_OPTS ELSE {}) |-> 0],
      activity_level |-> 1,
      message_count  |-> 0,
      bot_count      |-> 0,
      upvotes        |-> 0,
      best_rewarded  |-> FALSE ]

NewAgent ==
    [ points |-> 0, deleted_count |-> 0, banned_until |-> 0,
      last_message_time |-> 0, last_vote_time |-> 0, last_report_time |-> 0 ]

\* The response of a handler: HTTP status and the body fields the claims read.
Response(status) ==
    [ status |-> status, wait_seconds |-> 0, retry_after |-> 0,
      inactive_bonus |-> 0, streak_bonus |-> 0, quality_bonus |-> 0 ]

\* The store right after the schema is created and the debates exist;
\* agents is the table of registered agents, agent ids are 1, 2, ...
EmptyStore ==
    [ agents            |-> << >>,
      debates           |-> [d \in Debates |-> NewDebate(d)],
      messages          |-> << >>,
      vote_records      |-> {},
      message_reactions |-> {},
      ledger            |-> << >>,
      now               |-> T0,
      res               |-> Response(0) ]

\* ---------------------------------------------------------------- helpers
Max2(x, y) == IF x >= y THEN x ELSE y
Min2(x, y) == IF x <= y THEN x ELSE y
CeilDiv(x, y) == (x + y - 1) \div y             \* Math.ceil(x / y), x >= 0

MsgIds(s) == 1..Len(s.messages)

RECURSIVE SumOver(_, _)
SumOver(f, S) ==
    IF S = {} THEN 0
    ELSE LET x == CHOOSE y \in S : TRUE IN f[x] + SumOver(f, S \ {x})

Reply(s, status) == [s EXCEPT !.res = Response(status)]

\* ------------------------------------------------------------ scoring engine
awardPointsUnfloored(s, agentId, amount) ==
    [s EXCEPT !.agents[agentId].points = @ + amount]

\* a penalty larger than the balance is refused instead of floored
awardPointsRefusingOverdraft(s, agentId, amount) ==
    IF s.agents[agentId].points + amount < 0 THEN s
    ELSE [s EXCEPT !.agents[agentId].points = @ + amount]

\* UPDATE agents SET points = MAX(0, points + ?)
awardPoints(s, agentId, amount) ==
    [s EXCEPT !.agents[agentId].points = Max2(0, @ + amount)]

\* History of the awardPoints calls: how often each (kind, agent, subject)
\* award was paid. Not program state; it records what the handlers did.
Credit(s, kind, agentId, ref) ==
    LET k == <<kind, agentId, ref>> IN
    [s EXCEPT !.ledger = IF k \in DOMAIN @ THEN [@ EXCEPT ![k] = @ + 1]
                         ELSE @ @@ (k :> 1)]

\* an award applied twice to the balance
AwardDoubled(s, agentId, amount, kind, ref) ==
    Credit(awardPoints(awardPoints(s, agentId, amount), agentId, amount),
           kind, agentId, ref)

Award(s, agentId, amount, kind, ref) ==
    Credit(awardPoints(s, agentId, amount), kind, agentId, ref)

RECURSIVE AwardAll(_, _, _, _, _)
AwardAll(s, ids, amount, kind, ref) ==
    IF ids = {} THEN s
    ELSE LET id == CHOOSE x \in ids : TRUE IN
         AwardAll(Award(s, id, amount, kind, ref), ids \ {id}, amount, kind, ref)

Paid(l, kind, agentId, ref) ==
    IF <<kind, agentId, ref>> \in DOMAIN l THEN l[<<kind, agentId, ref>>] ELSE 0

\* --------------------------------------------------------------- middleware
\* the ban check with the instant banned_until still inside the ban
IsBannedInclusive(s, a) ==
    s.agents[a].banned_until # 0 /\ s.now <= s.agents[a].banned_until

\* auth.js requireAgent: the ban check
IsBanned(s, a) ==
    s.agents[a].banned_until # 0 /\ s.now < s.agents[a].banned_until

\* the window test with <= and the remaining wait rounded down
checkRateLimitInclusive(s, a, actionType) ==
    LET interval == IF actionType = "vote" THEN VOTE_INTERVAL ELSE REPORT_INTERVAL
        lastTime == IF actionType = "vote" THEN s.agents[a].last_vote_time
                    ELSE s.agents[a].last_report_time
    IN IF lastTime # 0 /\ (s.now - lastTime) <= interval
       THEN [ allowed |-> FALSE,
              wait_seconds |-> ((interval - (s.now - lastTime)) * Unit) \div MS_PER_SECOND,
              retry_after |-> lastTime + interval ]
       ELSE [ allowed |-> TRUE, wait_seconds |-> 0, retry_after |-> 0 ]

\* rateLimit.js checkRateLimit, on the agent row read by requireAgent
checkRateLimit(s, a, actionType) ==
    LET interval == IF actionType = "vote" THEN VOTE_INTERVAL ELSE REPORT_INTERVAL
        lastTime == IF actionType = "vote" THEN s.agents[a].last_vote_time
                    ELSE s.agents[a].last_report_time
    IN IF lastTime # 0 /\ (s.now - lastTime) < interval
       THEN [ allowed |-> FALSE,
              wait_seconds |-> CeilDiv((interval - (s.now - lastTime)) * Unit, MS_PER_SECOND),
              retry_after |-> lastTime + interval ]
       ELSE [ allowed |-> TRUE, wait_seconds |-> 0, retry_after |-> 0 ]

RateLimited(s, chk) ==
    [s EXCEPT !.res = [Response(429) EXCEPT !.wait_seconds = chk.wait_seconds,
                                            !.retry_after = chk.retry_after]]

\* the field map with the vote and report columns exchanged
updateRateLimitSwapped(s, a, actionType) ==
    IF actionType = "vote" THEN [s EXCEPT !.agents[a].last_report_time = s.now]
    ELSE IF actionType = "report" THEN [s EXCEPT !.agents[a].last_vote_time = s.now]
    ELSE [s EXCEPT !.agents[a].last_message_time = s.now]

\* rateLimit.js updateRateLimit
updateRateLimit(s, a, actionType) ==
    IF actionType = "vote" THEN [s EXCEPT !.agents[a].last_vote_time = s.now]
    ELSE IF actionType = "report" THEN [s EXCEPT !.agents[a].last_report_time = s.now]
    ELSE [s EXCEPT !.agents[a].last_message_time = s.now]

\* ------------------------------------------------------------ bonus rules
\* the messages of debate d, the deleted ones included
AllMsgsIn(s, d) == {m \in MsgIds(s) : s.messages[m].debate_id = d}

LiveMsgsIn(s, d) == {m \in MsgIds(s) : s.messages[m].debate_id = d /\ ~s.messages[m].is_deleted}

\* SELECT DISTINCT agent_id FROM messages ... UNION vote_records
Participants(s, d) ==
    {s.messages[m].agent_id : m \in LiveMsgsIn(s, d)}
        \cup {v.agent_id : v \in {w \in s.vote_records : w.debate_id = d}}

\* messages.js checkInactiveDebateBonus; debate is the row the handler read
checkInactiveDebateBonus(s, agentId, d, debate) ==
    IF debate.activity_level <= 2
       /\ ~\E m \in LiveMsgsIn(s, d) : s.messages[m].agent_id = agentId
    THEN INACTIVE_DEBATE_BONUS ELSE 0

\* votes.js checkInactiveDebateBonus
checkInactiveDebateBonusVote(s, agentId, d, debate) ==
    IF debate.activity_level <= 2
       /\ ~\E v \in s.vote_records : v.debate_id = d /\ v.agent_id = agentId
    THEN INACTIVE_DEBATE_BONUS ELSE 0

\* the distinct debates of the agent's messages and votes of the last 24 hours
uniqueDebates(s, agentId) ==
    LET since == s.now - DAY_MS IN
    {s.messages[m].debate_id : m \in {i \in MsgIds(s) :
            /\ s.messages[i].agent_id = agentId
            /\ s.messages[i].created_at > since
            /\ ~s.messages[i].is_deleted}}
      \cup {v.debate_id : v \in {w \in s.vote_records :
            w.agent_id = agentId /\ w.created_at > since}}

\* checkStreakBonus (messages.js and votes.js are the same code)
checkStreakBonus(s, agentId) ==
    IF Cardinality(uniqueDebates(s, agentId)) = STREAK_THRESHOLD
    THEN STREAK_BONUS ELSE 0

checkActivationBonus(s, d, prevLevel, newLevel) ==
    IF prevLevel < DEBATE_ACTIVATION_LEVEL /\ newLevel >= DEBATE_ACTIVATION_LEVEL
    THEN AwardAll(s, Participants(s, d), DEBATE_ACTIVATION_BONUS, "activation", d)
    ELSE s

\* without the test of the best_rewarded flag
checkBestDebateBonusUnflagged(s, d) ==
    LET debate == s.debates[d]
        isBest == debate.upvotes >= 30 /\ debate.message_count >= 50
                  /\ debate.activity_level >= 8
    IN IF ~isBest THEN s
       ELSE LET s1 == [s EXCEPT !.debates[d].best_rewarded = TRUE] IN
            AwardAll(s1, Participants(s1, d), BEST_DEBATE_BONUS, "best", d)

checkBestDebateBonus(s, d) ==
    LET debate == s.debates[d]
        isBest == debate.upvotes >= 30 /\ debate.message_count >= 50
                  /\ debate.activity_level >= 8
    IN IF ~isBest \/ debate.best_rewarded THEN s
       ELSE LET s1 == [s EXCEPT !.debates[d].best_rewarded = TRUE] IN
            AwardAll(s1, Participants(s1, d), BEST_DEBATE_BONUS, "best", d)

\* the level without its upper bound
ActivityLevelUncapped(msg_count, unique_agents, total) ==
    (2 * msg_count + 10 * unique_agents + total) \div 20

\* Math.min(10, Math.floor(msg/10 + agents*0.5 + upvotes/20)); the floating
\* point sum floors to the exact quotient for every count below 120 messages
\* and 400 upvotes.
ActivityLevel(msg_count, unique_agents, total) ==
    Min2(10, (2 * msg_count + 10 * unique_agents + total) \div 20)

updateDebateActivity(s, d) ==
    LET prevLevel == s.debates[d].activity_level
        live      == LiveMsgsIn(s, d)
        msg_count == Cardinality(live)
        unique_agents == Cardinality({s.messages[m].agent_id : m \in live})
        total     == SumOver([m \in live |-> s.messages[m].upvotes], live)
        level     == ActivityLevel(msg_count, unique_agents, total)
        s1 == [s EXCEPT !.debates[d].message_count = msg_count,
                        !.debates[d].bot_count = unique_agents,
                        !.debates[d].upvotes = total,
                        !.debates[d].activity_level = level]
    IN checkBestDebateBonus(checkActivationBonus(s1, d, prevLevel, level), d)

\* --------------------------------------------------- moderation escalator
checkAndBanAgentExtending(s, agentId) ==
    LET c == s.agents[agentId].deleted_count
        banDuration == IF c >= BAN_PERMANENT_AT THEN BAN_PERMANENT
                       ELSE IF c >= BAN_7DAY_AT THEN BAN_7DAY ELSE 0
    IN IF banDuration > 0
       THEN [s EXCEPT !.agents[agentId].banned_until = Max2(s.now, @) + banDuration]
       ELSE s

\* the ban with the two durations exchanged
checkAndBanAgentTiersSwapped(s, agentId) ==
    LET c == s.agents[agentId].deleted_count
        banDuration == IF c >= BAN_PERMANENT_AT THEN BAN_7DAY
                       ELSE IF c >= BAN_7DAY_AT THEN BAN_PERMANENT ELSE 0
    IN IF banDuration > 0
       THEN [s EXCEPT !.agents[agentId].banned_until = s.now + banDuration]
       ELSE s

checkAndBanAgent(s, agentId) ==
    LET c == s.agents[agentId].deleted_count
        banDuration == IF c >= BAN_PERMANENT_AT THEN BAN_PERMANENT
                       ELSE IF c >= BAN_7DAY_AT THEN BAN_7DAY ELSE 0
    IN IF banDuration > 0
       THEN [s EXCEPT !.agents[agentId].banned_until = s.now + banDuration]
       ELSE s

ReactorsOfAnyKind(s, m) ==
    {r.agent_id : r \in {x \in s.message_reactions : x.message_id = m}}

Reporters(s, m) ==
    {r.agent_id : r \in {x \in s.message_reactions :
                           x.message_id = m /\ x.reaction_type = "report"}}

OverThresholdStrict(msg) ==
    msg.downvotes > DOWNVOTE_THRESHOLD \/ msg.reports > REPORT_THRESHOLD

\* the threshold test of the downvote and report handlers
OverThreshold(msg) ==
    msg.downvotes >= DOWNVOTE_THRESHOLD \/ msg.reports >= REPORT_THRESHOLD

\* the auto-moderation block with the author's balance forfeited on deletion
autoModerateForfeitingPoints(s, m) ==
    IF OverThreshold(s.messages[m])
    THEN LET author == s.messages[m].agent_id
             s1 == [s EXCEPT !.messages[m].is_deleted = TRUE,
                             !.agents[author].deleted_count = @ + 1,
                             !.agents[author].points = 0]
             s2 == checkAndBanAgent(s1, author)
         IN AwardAll(s2, Reporters(s2, m), ACCURATE_REPORT_BONUS, "report", m)
    ELSE s

\* the auto-moderation block shared by the downvote and report handlers
autoModerate(s, m) ==
    IF OverThreshold(s.messages[m])
    THEN LET author == s.messages[m].agent_id
             s1 == [s EXCEPT !.messages[m].is_deleted = TRUE,
                             !.agents[author].deleted_count = @ + 1]
             s2 == checkAndBanAgent(s1, author)
         IN AwardAll(s2, Reporters(s2, m), ACCURATE_REPORT_BONUS, "report", m)
    ELSE s

\* ----------------------------------------------------------------- handlers
\* POST /:debateId/messages (requireAgent, no rate limiter)
postMessage(s, a, d, len) ==
    IF IsBanned(s, a) THEN Reply(s, 403)
    ELSE IF len < 2 \/ len > 500 THEN Reply(s, 400)
    ELSE IF d \notin DOMAIN s.debates \/ ~s.debates[d].is_active THEN Reply(s, 404)
    ELSE IF s.debates[d].type # "debate" THEN Reply(s, 400)
    ELSE LET debate == s.debates[d]
             inactiveBonus == checkInactiveDebateBonus(s, a, d, debate)
             s1 == IF inactiveBonus > 0
                   THEN Award(s, a, INACTIVE_DEBATE_BONUS, "inactive", d) ELSE s
             id == Len(s.messages) + 1
             s2 == [s1 EXCEPT !.messages = Append(@,
                       [ debate_id |-> d, agent_id |-> a, created_at |-> s.now,
                         upvotes |-> 0, downvotes |-> 0, reports |-> 0,
                         is_deleted |-> FALSE ])]
             s3 == Award(s2, a, MESSAGE_POSTED, "message", id)
             s4 == updateDebateActivity(s3, d)
             streakBonus == checkStreakBonus(s4, a)
             s5 == IF streakBonus > 0
                   THEN Award(s4, a, STREAK_BONUS, "streak", a) ELSE s4
         IN [s5 EXCEPT !.res = [Response(201) EXCEPT !.inactive_bonus = inactiveBonus,
                                                     !.streak_bonus = streakBonus]]

\* the level of a vote debate with the quotient rounded up
voteActivityLevelRoundedUp(totalVotes) == Min2(10, CeilDiv(totalVotes, 5))

\* votes.js: Math.min(10, Math.floor(totalVotes / 5))
voteActivityLevel(totalVotes) == Min2(10, totalVotes \div 5)

AlreadyVotedUnchecked(s, a, d) == FALSE

\* SELECT id FROM vote_records WHERE debate_id = ? AND agent_id = ?
AlreadyVoted(s, a, d) ==
    \E v \in s.vote_records : v.debate_id = d /\ v.agent_id = a

\* POST /:debateId/vote (requireAgent, rateLimitMiddleware('vote'))
castVote(s, a, d, option) ==
    IF IsBanned(s, a) THEN Reply(s, 403)
    ELSE IF ~checkRateLimit(s, a, "vote").allowed
         THEN RateLimited(s, checkRateLimit(s, a, "vote"))
    ELSE IF option = "" THEN Reply(s, 400)
    ELSE IF d \notin DOMAIN s.debates \/ ~s.debates[d].is_active THEN Reply(s, 404)
    ELSE IF s.debates[d].type # "vote" THEN Reply(s, 400)
    ELSE IF option \notin VOTE_OPTS THEN Reply(s, 400)
    ELSE IF AlreadyVoted(s, a, d) THEN Reply(s, 409)
    ELSE LET debate == s.debates[d]
             inactiveBonus == checkInactiveDebateBonusVote(s, a, d, debate)
             s1 == IF inactiveBonus > 0
                   THEN Award(s, a, INACTIVE_DEBATE_BONUS, "inactive", d) ELSE s
             s2 == [s1 EXCEPT !.vote_records = @ \cup
                       {[ debate_id |-> d, agent_id |-> a, option_text |-> option,
                          created_at |-> s.now ]}]
             votes == [debate.votes EXCEPT ![option] = @ + 1]
             totalVotes == SumOver(votes, DOMAIN votes)
             s3 == [s2 EXCEPT !.debates[d].votes = votes,
                              !.debates[d].bot_count = @ + 1,
                              !.debates[d].activity_level = voteActivityLevel(totalVotes)]
             s4 == updateRateLimit(s3, a, "vote")
             s5 == Award(s4, a, VOTE_PARTICIPATED, "vote", d)
             streakBonus == checkStreakBonus(s5, a)
             s6 == IF streakBonus > 0
                   THEN Award(s5, a, STREAK_BONUS, "streak", a) ELSE s5
         IN [s6 EXCEPT !.res = [Response(201) EXCEPT !.inactive_bonus = inactiveBonus,
                                                     !.streak_bonus = streakBonus]]

HasReactionUnchecked(s, m, a, kind) == FALSE

\* SELECT id FROM message_reactions WHERE message_id = ? AND agent_id = ? AND reaction_type = ?
HasReaction(s, m, a, kind) ==
    \E r \in s.message_reactions :
        r.message_id = m /\ r.agent_id = a /\ r.reaction_type = kind

AddReaction(s, m, a, kind) ==
    [s EXCEPT !.message_reactions = @ \cup
        {[ message_id |-> m, agent_id |-> a, reaction_type |-> kind,
           created_at |-> s.now ]}]

FindMessageDeletedToo(s, m) == m \in MsgIds(s)

\* SELECT * FROM messages WHERE id = ? AND is_deleted = 0
FindMessage(s, m) == m \in MsgIds(s) /\ ~s.messages[m].is_deleted

QualityReachedOrPassed(upvotes) == upvotes >= QUALITY_UPVOTE_THRESHOLD

\* updatedMsg.upvotes === POINTS.QUALITY_UPVOTE_THRESHOLD
QualityReached(upvotes) == upvotes = QUALITY_UPVOTE_THRESHOLD

\* POST /:messageId/upvote (requireAgent)
upvote(s, a, m) ==
    IF IsBanned(s, a) THEN Reply(s, 403)
    ELSE IF ~FindMessage(s, m) THEN Reply(s, 404)
    ELSE IF s.messages[m].agent_id = a THEN Reply(s, 400)
    ELSE IF HasReaction(s, m, a, "upvote") THEN Reply(s, 409)
    ELSE LET message == s.messages[m]
             s1 == AddReaction(s, m, a, "upvote")
             s2 == [s1 EXCEPT !.messages[m].upvotes = @ + 1]
             s3 == Award(s2, message.agent_id, UPVOTE_RECEIVED, "upvote", m)
             quality == QualityReached(s3.messages[m].upvotes)
             s4 == IF quality
                   THEN Award(s3, message.agent_id, QUALITY_MESSAGE_BONUS, "quality", m)
                   ELSE s3
             s5 == updateDebateActivity(s4, message.debate_id)
         IN [s5 EXCEPT !.res = [Response(200) EXCEPT !.quality_bonus =
                                   IF quality THEN QUALITY_MESSAGE_BONUS ELSE 0]]

\* POST /:messageId/downvote (requireAgent)
downvote(s, a, m) ==
    IF IsBanned(s, a) THEN Reply(s, 403)
    ELSE IF ~FindMessage(s, m) THEN Reply(s, 404)
    ELSE IF s.messages[m].agent_id = a THEN Reply(s, 400)
    ELSE IF HasReaction(s, m, a, "downvote") THEN Reply(s, 409)
    ELSE LET message == s.messages[m]
             s1 == AddReaction(s, m, a, "downvote")
             s2 == [s1 EXCEPT !.messages[m].downvotes = @ + 1]
             s3 == Award(s2, message.agent_id, DOWNVOTE_RECEIVED, "downvote", m)
             s4 == autoModerate(s3, m)
             s5 == updateDebateActivity(s4, message.debate_id)
         IN Reply(s5, 200)

\* POST /:messageId/report (requireAgent, rateLimitMiddleware('report'));
\* the handler has no own-message test and does not recompute the activity
report(s, a, m) ==
    IF IsBanned(s, a) THEN Reply(s, 403)
    ELSE IF ~checkRateLimit(s, a, "report").allowed
         THEN RateLimited(s, checkRateLimit(s, a, "report"))
    ELSE IF ~FindMessage(s, m) THEN Reply(s, 404)
    ELSE IF HasReaction(s, m, a, "report") THEN Reply(s, 409)
    ELSE LET s1 == AddReaction(s, m, a, "report")
             s2 == [s1 EXCEPT !.messages[m].reports = @ + 1]
             s3 == updateRateLimit(s2, a, "report")
             s4 == autoModerate(s3, m)
         IN Reply(s4, 200)

\* the clock advances between requests
tick(s, dt) == [s EXCEPT !.now = @ + dt]

\* index.js cleanupExpiredDebates, run by a timer every five minutes:
\* UPDATE debates SET is_active = 0 WHERE is_active = 1 AND created_at < cutoff
cleanupExpiredDebates(s) ==
    LET cutoff == s.now - DEBATE_TTL IN
    [s EXCEPT !.debates = [d \in DOMAIN @ |->
        IF @[d].is_active /\ @[d].created_at # 0 /\ @[d].created_at < cutoff
        THEN [@[d] EXCEPT !.is_active = FALSE] ELSE @[d]]]

\* POST /agents/register: a new agent row with the schema's defaults
register(s) == [s EXCEPT !.agents = Append(@, NewAgent)]

\* ------------------------------------------------------------------- state
VARIABLES
    agents,             \* agents table: id -> row
    debates,            \* debates table: id -> row
    messages,           \* messages table: id (1, 2, ...) -> row
    vote_records,       \* vote_records table
    message_reactions,  \* message_reactions table
    ledger,             \* history: number of awardPoints calls per (kind, agent, subject)
    now,                \* Date.now()
    res,                \* the response of the last request
    inbox,              \* requests the server has received and not yet handled
    steps               \* number of requests and ticks since the start state

vars == <<agents, debates, messages, vote_records, message_reactions,
          ledger, now, res, inbox, steps>>

State ==
    [ agents |-> agents, debates |-> debates, messages |-> messages,
      vote_records |-> vote_records, message_reactions |-> message_reactions,
      ledger |-> ledger, now |-> now, res |-> res ]

\* the tables, without clock, response and history
Store == <<agents, debates, messages, vote_records, message_reactions>>

\* the store and the response become those of s
Persist(s) ==
    /\ res' = s.res
    /\ now' = s.now
    /\ agents' = s.agents
    /\ debates' = s.debates
    /\ messages' = s.messages
    /\ vote_records' = s.vote_records
    /\ message_reactions' = s.message_reactions
    /\ ledger' = s.ledger

\* a request handled on arrival
Commit(s) ==
    /\ steps' = steps + 1
    /\ inbox' = inbox
    /\ Persist(s)

\* ----------------------------------------------------------- request inputs
AgentIds      == DOMAIN agents
DebateInputs  == Debates \cup {NoDebate}
OptionInputs  == VOTE_OPTS \cup {"", "maybe"}     \* "" is a request without option
ContentLens   == {1, 2, 501}                      \* content.trim().length
MessageInputs == 1..(Len(messages) + 1)           \* the last one is no message's id
TickSteps     == {REPORT_INTERVAL, BAN_7DAY, BAN_PERMANENT}

\* ----------------------------------------------------------------- actions
\* posting under the five-minute message cooldown of the first revision of
\* the messages router
PostMessageWithCooldown(a, d, len) ==
    /\ steps < MaxSteps
    /\ LET last == agents[a].last_message_time
           out  == postMessage(State, a, d, len) IN
       Commit(IF ~IsBanned(State, a) /\ last # 0 /\ now - last < Ms(300000)
              THEN Reply(State, 429)
              ELSE IF out.res.status = 201 THEN updateRateLimit(out, a, "message")
              ELSE out)

\* posting with the inactive-debate bonus evaluated, and paid, before the
\* test of the debate's kind
PostMessagePayingFirst(a, d, len) ==
    /\ steps < MaxSteps
    /\ LET out == postMessage(State, a, d, len) IN
       Commit(IF /\ out.res.status = 400
                 /\ len >= 2 /\ len <= 500
                 /\ d \in DOMAIN debates
                 /\ checkInactiveDebateBonus(State, a, d, debates[d]) > 0
              THEN Award(out, a, INACTIVE_DEBATE_BONUS, "inactive", d)
              ELSE out)

\* posting into a debate whatever its is_active flag
PostMessageIgnoringActive(a, d, len) ==
    /\ steps < MaxSteps
    /\ IF d \in DOMAIN debates
       THEN LET out == postMessage([State EXCEPT !.debates[d].is_active = TRUE], a, d, len)
            IN Commit([out EXCEPT !.debates[d].is_active = debates[d].is_active])
       ELSE Commit(postMessage(State, a, d, len))

\* posting with the content validated before requireAgent's ban test
PostMessageValidatingFirst(a, d, len) ==
    /\ steps < MaxSteps
    /\ Commit(IF len < 2 \/ len > 500 THEN Reply(State, 400)
              ELSE postMessage(State, a, d, len))

\* a rejected report restarts the reporter's cooldown
ReportRestartingCooldown(a, m) ==
    /\ steps < MaxSteps
    /\ LET out == report(State, a, m) IN
       Commit(IF out.res.status = 429 THEN updateRateLimit(out, a, "report") ELSE out)

\* a downvote whose UPDATE writes the counter it read before a downvote of
\* the same instant was stored: the increment of one of the two is lost
DownvoteLosingUpdate(a, m) ==
    /\ steps < MaxSteps
    /\ LET out == downvote(State, a, m) IN
       Commit(IF /\ out.res.status = 200
                 /\ \E r \in message_reactions :
                       /\ r.message_id = m
                       /\ r.reaction_type = "downvote"
                       /\ r.created_at = now
              THEN [out EXCEPT !.messages[m].downvotes = messages[m].downvotes]
              ELSE out)

\* an upvote that takes back the agent's downvote of the message: the
\* downvote record is removed and the downvote counter lowered
UpvoteRetractingDownvote(a, m) ==
    /\ steps < MaxSteps
    /\ LET out == upvote(State, a, m) IN
       Commit(IF out.res.status = 200 /\ HasReaction(State, m, a, "downvote")
              THEN [out EXCEPT !.message_reactions =
                                  {r \in @ : ~( /\ r.message_id = m
                                                /\ r.agent_id = a
                                                /\ r.reaction_type = "downvote" )},
                               !.messages[m].downvotes = @ - 1]
              ELSE out)

\* an upvote whose counter is incremented before the test for an earlier
\* upvote of the same agent
UpvoteCountingDuplicates(a, m) ==
    /\ steps < MaxSteps
    /\ LET out == upvote(State, a, m) IN
       Commit(IF out.res.status = 409
              THEN [out EXCEPT !.messages[m].upvotes = @ + 1]
              ELSE out)

\* a downvote that finds deleted messages too
DownvoteFindingDeleted(a, m) ==
    /\ steps < MaxSteps
    /\ IF m \in DOMAIN messages /\ messages[m].is_deleted
       THEN Commit(downvote([State EXCEPT !.messages[m].is_deleted = FALSE], a, m))
       ELSE Commit(downvote(State, a, m))

\* voting in a debate whatever its is_active flag
CastVoteIgnoringActive(a, d, o) ==
    /\ steps < MaxSteps
    /\ IF d \in DOMAIN debates
       THEN LET out == castVote([State EXCEPT !.debates[d].is_active = TRUE], a, d, o)
            IN Commit([out EXCEPT !.debates[d].is_active = debates[d].is_active])
       ELSE Commit(castVote(State, a, d, o))

PostMessage(a, d, len) == steps < MaxSteps /\ Commit(postMessage(State, a, d, len))
CastVote(a, d, o)      == steps < MaxSteps /\ Commit(castVote(State, a, d, o))
Upvote(a, m)           == steps < MaxSteps /\ Commit(upvote(State, a, m))
Downvote(a, m)         == steps < MaxSteps /\ Commit(downvote(State, a, m))
Report(a, m)           == steps < MaxSteps /\ Commit(report(State, a, m))
Tick(dt)               == steps < MaxSteps /\ Commit(tick(State, dt))
Cleanup                == steps < MaxSteps /\ Commit(cleanupExpiredDebates(State))

Next ==
    \/ \E a \in AgentIds, d \in DebateInputs, len \in ContentLens : PostMessage(a, d, len)
    \/ \E a \in AgentIds, d \in DebateInputs, o \in OptionInputs : CastVote(a, d, o)
    \/ \E a \in AgentIds, m \in MessageInputs : Upvote(a, m)
    \/ \E a \in AgentIds, m \in MessageInputs : Downvote(a, m)
    \/ \E a \in AgentIds, m \in MessageInputs : Report(a, m)
    \/ \E dt \in TickSteps : Tick(dt)

\* ------------------------------------------------------------ start states
\* A start state is the store after a history of requests, replayed through
\* the handlers from the empty store.
Apply(s, op) ==
    CASE op.op = "register" -> register(s)
      [] op.op = "post"     -> postMessage(s, op.a, op.d, 2)
      [] op.op = "vote"     -> castVote(s, op.a, op.d, op.o)
      [] op.op = "upvote"   -> upvote(s, op.a, op.m)
      [] op.op = "downvote" -> downvote(s, op.a, op.m)
      [] op.op = "report"   -> report(s, op.a, op.m)
      [] op.op = "tick"     -> tick(s, op.dt)
      [] op.op = "cleanup"  -> cleanupExpiredDebates(s)

RECURSIVE Replay(_, _)
Replay(s, ops) ==
    IF ops = << >> THEN s
    ELSE IF Len(ops) = 1 THEN Apply(s, ops[1])
    ELSE LET half == Len(ops) \div 2
             t    == Replay(s, SubSeq(ops, 1, half))
             rest == SubSeq(ops, half + 1, Len(ops))
         IN IF t = s THEN Replay(s, rest) ELSE Replay(t, rest)

RECURSIVE Concat(_)
Concat(seqs) == IF seqs = << >> THEN << >> ELSE Head(seqs) \o Concat(Tail(seqs))

Registers(n)        == [i \in 1..n |-> [op |-> "register"]]
Post(a, d)          == [op |-> "post", a |-> a, d |-> d]
Vote(a, d, o)       == [op |-> "vote", a |-> a, d |-> d, o |-> o]
Wait(dt)            == [op |-> "tick", dt |-> dt]
\* agents lo..hi each send the reaction to message m
Reactions(kind, lo, hi, m) ==
    [i \in 1..(hi - lo + 1) |-> [op |-> kind, a |-> lo + i - 1, m |-> m]]

\* agent 1 is one upvote short of a quality message (m1), has taken part in
\* two debates, and agent 2 has just voted
HistoryBusy ==
    Concat(<< Registers(6 + Extra),
              << Post(1, "d1") >>, Reactions("upvote", 2, 5, 1),
              << Post(1, "d2"), Vote(2, "v1", "yes") >> >>)

\* agent 1 voted and its vote cooldown has elapsed
HistoryVoted ==
    Concat(<< Registers(1 + Extra), << Vote(1, "v1", "yes"), Wait(VOTE_INTERVAL) >> >>)

\* agent 2 reported m1 of agent 1 and its report cooldown has elapsed
HistoryReported ==
    Concat(<< Registers(1 + Extra),
              << Post(1, "d1"), [op |-> "report", a |-> 2, m |-> 1],
                 Wait(REPORT_INTERVAL) >> >>)

\* m1 of agent 1 is one downvote and one report short of deletion
HistoryFlagged ==
    Concat(<< Registers(10 + Extra),
              << Post(1, "d1") >>, Reactions("downvote", 2, 10, 1),
              Reactions("report", 2, 5, 1) >>)

\* agent 1 has posted n messages; agents 2..5 report one message per minute
\* and agent 6 files the fifth report on the first n - 1 of them
ReportRound(k, last) ==
    << Wait(REPORT_INTERVAL) >> \o Reactions("report", 2, last, k)

RECURSIVE ReportRounds(_, _)
ReportRounds(k, n) ==
    IF k > n THEN << >>
    ELSE ReportRound(k, IF k = n THEN 5 ELSE 6) \o ReportRounds(k + 1, n)

\* deleted_count of agent 1 is n - 1 and message n has four reports
HistoryDeletions(n) ==
    Concat(<< Registers(5 + Extra), [i \in 1..n |-> Post(1, "d1")],
              ReportRounds(1, n), << Wait(REPORT_INTERVAL) >> >>)

\* deleted_count of agent 1 is n
HistoryBanned(n) ==
    HistoryDeletions(n) \o << [op |-> "report", a |-> 6, m |-> n] >>

Start(history) == [Replay(EmptyStore, history) EXCEPT !.res = Response(0)]

InitFrom(starts) ==
    \E s \in starts :
        /\ agents = s.agents
        /\ debates = s.debates
        /\ messages = s.messages
        /\ vote_records = s.vote_records
        /\ message_reactions = s.message_reactions
        /\ ledger = s.ledger
        /\ now = s.now
        /\ res = s.res
        /\ inbox = {}
        /\ steps = 0

\* requests against a fresh or lightly used store
Init == InitFrom({Start(Registers(1 + Extra)), Start(HistoryVoted),
                  Start(HistoryReported), Start(HistoryBusy)})
Spec == Init /\ [][Next]_vars

\* requests against a message close to the moderation thresholds
InitMod == InitFrom({Start(HistoryFlagged)})
SpecMod == InitMod /\ [][Next]_vars

\* requests against an author close to, or past, the ban thresholds
InitBan == InitFrom({Start(HistoryDeletions(5)), Start(HistoryDeletions(6)),
                     Start(HistoryDeletions(10))})
SpecBan == InitBan /\ [][Next]_vars

\* requests against an author at the last ban threshold
InitPerm == InitFrom({Start(HistoryBanned(10))})
SpecPerm == InitPerm /\ [][Next]_vars

\* requests close to the end of a cooldown: agent 1 voted 29 s ago, agent 2
\* reported m1 of agent 1 59 s ago; the clock advances by half seconds and
\* seconds
HistoryVotedLately ==
    Concat(<< Registers(1 + Extra), << Vote(1, "v1", "yes"), Wait(Ms(29000)) >> >>)

HistoryReportedLately ==
    Concat(<< Registers(1 + Extra),
              << Post(1, "d1"), [op |-> "report", a |-> 2, m |-> 1],
                 Wait(Ms(59000)) >> >>)

RateTicks == {Ms(500), Ms(1000)}

NextRate ==
    \/ \E a \in AgentIds, d \in DebateInputs, len \in ContentLens : PostMessage(a, d, len)
    \/ \E a \in AgentIds, d \in DebateInputs, o \in OptionInputs : CastVote(a, d, o)
    \/ \E a \in AgentIds, m \in MessageInputs : Upvote(a, m)
    \/ \E a \in AgentIds, m \in MessageInputs : Downvote(a, m)
    \/ \E a \in AgentIds, m \in MessageInputs : Report(a, m)
    \/ \E dt \in RateTicks : Tick(dt)

InitRate == InitFrom({Start(HistoryVotedLately), Start(HistoryReportedLately)})
SpecRate == InitRate /\ [][NextRate]_vars

\* Busy debates. The start states below hold a dozen authors, dozens of
\* voters or fifty messages; from them the requests explored are those of
\* the history's first two agents and of the agents the history left idle,
\* aimed at the busy debates and at the newest message.
ActingAgents   == {a \in AgentIds : a <= 2 \/ a > Len(agents) - Extra}
TargetDebates  == {"d1", "v1"}
TargetOptions  == {"yes"}
TargetLens     == {2}
TargetMessages == {m \in {Len(messages), Len(messages) + 1} : m > 0}

NextBusy ==
    \/ \E a \in ActingAgents, d \in TargetDebates, len \in TargetLens : PostMessage(a, d, len)
    \/ \E a \in ActingAgents, d \in TargetDebates, o \in TargetOptions : CastVote(a, d, o)
    \/ \E a \in ActingAgents, m \in TargetMessages : Upvote(a, m)
    \/ \E a \in ActingAgents, m \in TargetMessages : Downvote(a, m)
    \/ \E a \in ActingAgents, m \in TargetMessages : Report(a, m)
    \/ \E dt \in TickSteps : Tick(dt)

\* agents hi, hi - 1, ..., lo each post one message in d
PostsDown(hi, lo, d) == [i \in 1..(hi - lo + 1) |-> Post(hi + 1 - i, d)]

\* eleven authors have posted in d1: its level is 6, one author short of 7
HistoryWarm ==
    Concat(<< Registers(12 + Extra), PostsDown(12, 2, "d1") >>)

\* the twelfth author, agent 1, has posted m12 and raised d1 to level 7;
\* m12 has four reports
HistoryLively ==
    Concat(<< HistoryWarm, << Post(1, "d1") >>, Reactions("report", 3, 6, 12) >>)

\* agents 3..36 have voted in v1: its level is 6, one vote short of 7
HistoryPolled ==
    Concat(<< Registers(36 + Extra),
              [i \in 1..34 |-> Vote(i + 2, "v1", "yes")] >>)

InitActive == InitFrom({Start(HistoryWarm), Start(HistoryLively), Start(HistoryPolled)})
SpecActive == InitActive /\ [][NextBusy]_vars

\* the authors close to the ban thresholds, with the requests of the busy
\* debates: the agents the history left idle react to the author's newest
\* message
SpecEscalate == InitBan /\ [][NextBusy]_vars

\* Bans that run out. Agent 1 has just been banned, for 7 days by its fifth
\* deletion or for 365 days by its tenth; a tick of the ban's length takes
\* the clock to banned_until exactly
InitExpiry == InitFrom({Start(HistoryBanned(5)), Start(HistoryBanned(10))})
SpecExpiry == InitExpiry /\ [][NextBusy]_vars

\* a request of agent a among those of the busy debates
BusyRequestBy(a) ==
    \/ \E d \in TargetDebates, len \in TargetLens : PostMessage(a, d, len)
    \/ \E d \in TargetDebates, o \in TargetOptions : CastVote(a, d, o)
    \/ \E m \in TargetMessages : Upvote(a, m) \/ Downvote(a, m) \/ Report(a, m)

\* agent 1 has posted 49 messages in d1 and agent 2 the fiftieth; agent 2
\* has upvoted m1..m39: d1 is at level 7, one upvote short of level 8
HistoryAlmostBest ==
    Concat(<< Registers(2 + Extra), [i \in 1..49 |-> Post(1, "d1")], << Post(2, "d1") >>,
              [i \in 1..39 |-> [op |-> "upvote", a |-> 2, m |-> i]] >>)

InitBest == InitFrom({Start(HistoryAlmostBest)})
SpecBest == InitBest /\ [][NextBusy]_vars

\* m1 of agent 1 has nine downvotes, of agents 3..11; agent 2 and the idle
\* agents have not reacted to it
HistoryDownvoted ==
    Concat(<< Registers(11 + Extra), << Post(1, "d1") >>,
              Reactions("downvote", 3, 11, 1) >>)

InitTally == InitFrom({Start(HistoryDownvoted)})
SpecTally == InitTally /\ [][NextBusy]_vars

\* Debates at the top of the scale. Eighteen authors have posted in d1 and
\* agents 3..56 have voted in v1: both debates are at level 10, and the
\* next author, or voter, takes the uncapped formula to 11
HistoryCrowded ==
    Concat(<< Registers(18 + Extra), PostsDown(18, 1, "d1") >>)

HistoryLandslide ==
    Concat(<< Registers(56 + Extra),
              [i \in 1..54 |-> Vote(i + 2, "v1", "yes")] >>)

InitFull == InitFrom({Start(HistoryCrowded), Start(HistoryLandslide)})
SpecFull == InitFull /\ [][NextBusy]_vars

\* Expiring debates. Agent 1 has posted in d1, and the debates are exactly
\* six hours old: the next run of the cleanup timer leaves them alone, a
\* later one closes them
HistoryAged ==
    Concat(<< Registers(1 + Extra), << Post(1, "d1"), Wait(DEBATE_TTL) >> >>)

\* a second later the cleanup timer has closed every debate
HistoryClosed ==
    HistoryAged \o << Wait(Ms(1000)), [op |-> "cleanup"] >>

NextClosed ==
    \/ \E a \in AgentIds, d \in DebateInputs, len \in ContentLens : PostMessage(a, d, len)
    \/ \E a \in AgentIds, d \in DebateInputs, o \in OptionInputs : CastVote(a, d, o)
    \/ \E a \in AgentIds, m \in MessageInputs : Upvote(a, m)
    \/ \E a \in AgentIds, m \in MessageInputs : Downvote(a, m)
    \/ \E a \in AgentIds, m \in MessageInputs : Report(a, m)
    \/ \E dt \in TickSteps : Tick(dt)
    \/ Cleanup

InitClosed == InitFrom({Start(HistoryAged), Start(HistoryClosed)})
SpecClosed == InitClosed /\ [][NextClosed]_vars

\* Requests in flight. Node receives requests while a handler runs and keeps
\* them until the running handler returns; express then runs the middleware
\* and the handler of one of them to its response, in one piece (nothing in
\* the chain awaits), whatever else is waiting.
\* the requests explored are votes in d1 and v1 and reactions to the newest
\* message: the routes behind the rate limiters and the requests they race
\* with
QueueInputs ==
    {Vote(a, d, o) : a \in AgentIds, d \in TargetDebates, o \in TargetOptions}
      \cup {[op |-> k, a |-> a, m |-> m] :
               k \in {"upvote", "downvote", "report"}, a \in AgentIds,
               m \in TargetMessages}

\* a request arrives
Submit(req) ==
    /\ steps < MaxSteps
    /\ req \notin inbox
    /\ inbox' = inbox \cup {req}
    /\ steps' = steps + 1
    /\ UNCHANGED <<agents, debates, messages, vote_records, message_reactions,
                   ledger, now, res>>

\* a rate-limited request is kept and tried again, instead of answered
ServeHoldingLimited(req) ==
    /\ req \in inbox
    /\ UNCHANGED steps
    /\ \E out \in {Apply(State, req)} :
          /\ inbox' = IF out.res.status = 429 THEN inbox ELSE inbox \ {req}
          /\ Persist(out)

\* a vote whose UPDATE writes the tallies it read before a vote of the same
\* instant was counted: the debate's tallies keep the other vote's count only
ServeStaleTally(req) ==
    /\ req \in inbox
    /\ UNCHANGED steps
    /\ inbox' = inbox \ {req}
    /\ \E out \in {Apply(State, req)} :
          Persist(IF /\ req.op = "vote"
                     /\ out.res.status = 201
                     /\ \E v \in vote_records :
                           v.debate_id = req.d /\ v.created_at = now
                  THEN [out EXCEPT !.debates[req.d].votes = debates[req.d].votes]
                  ELSE out)

\* a request checked against the agent row as it was before a request of
\* the same instant stamped it
ServeReadingStaleStamp(req) ==
    /\ req \in inbox
    /\ UNCHANGED steps
    /\ inbox' = inbox \ {req}
    /\ LET row   == agents[req.a]
           stale == [State EXCEPT
                       !.agents[req.a].last_vote_time = IF @ = now THEN 0 ELSE @,
                       !.agents[req.a].last_report_time = IF @ = now THEN 0 ELSE @]
       IN \E out \in {Apply(stale, req)} :
             Persist([out EXCEPT
                        !.agents[req.a].last_vote_time =
                            IF @ = 0 THEN row.last_vote_time ELSE @,
                        !.agents[req.a].last_report_time =
                            IF @ = 0 THEN row.last_report_time ELSE @])

\* a waiting request is handled and answered
Serve(req) ==
    /\ req \in inbox
    /\ UNCHANGED steps
    /\ inbox' = inbox \ {req}
    /\ \E out \in {Apply(State, req)} : Persist(out)

NextQueue ==
    \/ \E req \in QueueInputs : Submit(req)
    \/ \E req \in inbox : Serve(req)

\* the event loop runs the handler of every request it has received
SpecQueue ==
    InitRate /\ [][NextQueue]_vars /\ WF_vars(\E req \in inbox : Serve(req))

\* Requests in flight on a store with two polls. The debates table holds a
\* second vote debate, v2; agent 1 has voted in v1, 30 or 29 seconds ago, or
\* has posted m1 and m2 and agent 2 reported m1 59 seconds ago. Votes in both
\* polls and reports of every message arrive together and the clock
\* advances by half seconds and seconds.
SecondPoll == "v2"

TwoPollStore ==
    [EmptyStore EXCEPT !.debates =
        [d \in Debates \cup {SecondPoll} |->
            IF d = SecondPoll THEN NewDebate("v1") ELSE NewDebate(d)]]

StartPolls(history) == [Replay(TwoPollStore, history) EXCEPT !.res = Response(0)]

HistoryReportedOfTwo ==
    Concat(<< Registers(1 + Extra),
              << Post(1, "d1"), Post(1, "d1"), [op |-> "report", a |-> 2, m |-> 1],
                 Wait(Ms(59000)) >> >>)

PollInputs ==
    {Vote(a, d, o) : a \in AgentIds, d \in {"v1", SecondPoll}, o \in VOTE_OPTS}
      \cup {[op |-> "report", a |-> a, m |-> m] : a \in AgentIds, m \in DOMAIN messages}

NextPoll ==
    \/ \E req \in PollInputs : Submit(req)
    \/ \E req \in inbox : Serve(req)
    \/ \E dt \in RateTicks : Tick(dt)

InitPoll == InitFrom({StartPolls(HistoryVoted), StartPolls(HistoryVotedLately),
                      StartPolls(HistoryReportedOfTwo)})
SpecPoll == InitPoll /\ [][NextPoll]_vars

\* Storage faults. The handlers open no transaction and catch nothing: when
\* a statement throws, the writes before it stay, express hands the error to
\* the error-handling middleware of index.js and the request is answered 500.

\* POST /:debateId/messages when a statement of updateDebateActivity throws
postMessageThrowing(s, a, d, len) ==
    LET out == postMessage(s, a, d, len) IN
    IF out.res.status # 201 THEN out
    ELSE LET inactiveBonus == checkInactiveDebateBonus(s, a, d, s.debates[d])
             s1 == IF inactiveBonus > 0
                   THEN Award(s, a, INACTIVE_DEBATE_BONUS, "inactive", d) ELSE s
             id == Len(s.messages) + 1
             s2 == [s1 EXCEPT !.messages = Append(@, out.messages[id])]
             s3 == Award(s2, a, MESSAGE_POSTED, "message", id)
         IN Reply(s3, 500)

\* POST /:debateId/vote when the UPDATE of the debate's statistics throws
castVoteThrowing(s, a, d, option) ==
    LET out == castVote(s, a, d, option) IN
    IF out.res.status # 201 THEN out
    ELSE LET inactiveBonus == checkInactiveDebateBonusVote(s, a, d, s.debates[d])
             s1 == IF inactiveBonus > 0
                   THEN Award(s, a, INACTIVE_DEBATE_BONUS, "inactive", d) ELSE s
             s2 == [s1 EXCEPT !.vote_records = out.vote_records,
                              !.debates[d].votes = out.debates[d].votes]
         IN Reply(s2, 500)

PostMessageThrowing(a, d, len) ==
    steps < MaxSteps /\ Commit(postMessageThrowing(State, a, d, len))
CastVoteThrowing(a, d, o) ==
    steps < MaxSteps /\ Commit(castVoteThrowing(State, a, d, o))

NextFaulty ==
    \/ \E a \in AgentIds, d \in DebateInputs, len \in ContentLens : PostMessage(a, d, len)
    \/ \E a \in AgentIds, d \in DebateInputs, o \in OptionInputs : CastVote(a, d, o)
    \/ \E a \in AgentIds, m \in MessageInputs : Upvote(a, m)
    \/ \E a \in AgentIds, m \in MessageInputs : Downvote(a, m)
    \/ \E a \in AgentIds, m \in MessageInputs : Report(a, m)
    \/ \E dt \in TickSteps : Tick(dt)
    \/ \E a \in AgentIds, d \in DebateInputs, len \in ContentLens :
          PostMessageThrowing(a, d, len)
    \/ \E a \in AgentIds, d \in DebateInputs, o \in OptionInputs :
          CastVoteThrowing(a, d, o)

InitFault == InitFrom({Start(Registers(1 + Extra)), Start(HistoryReported)})
SpecFault == InitFault /\ [][NextFaulty]_vars

\* ================================================================= claims
\* what a step leaves alone when a request is rejected: every table and
\* the award history
Untouched == UNCHANGED <<agents, debates, messages, vote_records, message_reactions, ledger>>

Rejections == {400, 403, 404, 409, 429}

\* C1: in every reachable state every agent's point balance is >= 0.
C1_PointsNonNegative ==
    \A a \in DOMAIN agents : agents[a].points >= 0

\* a tenth downvote has hit an author whose balance was already at the floor
C1_Witness ==
    /\ steps > 0
    /\ \E m \in DOMAIN messages :
          /\ messages[m].downvotes = DOWNVOTE_THRESHOLD
          /\ agents[messages[m].agent_id].points = 0

\* vote_records holds at most one row per (debate, agent)
C2_Unique ==
    \A v \in vote_records, w \in vote_records :
        (v.debate_id = w.debate_id /\ v.agent_id = w.agent_id) => v = w

\* C2 (as claimed): at most one vote record per (debate, agent), and a
\* castVote (for one of the debate's options) by an agent that already
\* voted in the debate is answered 409 and changes nothing.
C2_SecondVoteIsConflict ==
    [][ /\ C2_Unique'
        /\ \A a \in AgentIds, d \in Debates :
              AlreadyVoted(State, a, d) =>
                 \A o \in VOTE_OPTS :
                    (res'.status = 409 /\ Untouched) \/ ~CastVote(a, d, o) ]_vars

\* C2 (amended): at most one vote record per (debate, agent); a castVote by
\* an agent that already voted in the debate is always rejected and changes
\* no table and pays no award; the rejection is 409 when the agent is not
\* banned, its vote cooldown has elapsed, the debate is active and the
\* option is one of the debate's options.
C2_SecondVoteRejected ==
    [][ /\ C2_Unique'
        /\ \A a \in AgentIds, d \in Debates :
              AlreadyVoted(State, a, d) =>
                 \A o \in OptionInputs :
                    \/ /\ res'.status \in Rejections
                       /\ Untouched
                       /\ ( /\ ~IsBanned(State, a)
                            /\ now - agents[a].last_vote_time >= VOTE_INTERVAL
                            /\ debates[d].is_active
                            /\ o \in VOTE_OPTS ) => res'.status = 409
                    \/ ~CastVote(a, d, o) ]_vars

\* on a store without reactions, a 409 answers a second vote sent after the
\* cooldown
C2_Witness ==
    /\ res.status = 409
    /\ message_reactions = {}
    /\ \E v \in vote_records : now - v.created_at >= VOTE_INTERVAL

\* C3: no reaction record of any kind has the message's author as its agent
\* (an upvote, downvote or report of one's own message is rejected).
C3_NoSelfReaction ==
    \A r \in message_reactions : messages[r.message_id].agent_id # r.agent_id

\* message_reactions holds at most one row per (message, agent, kind)
C4_Unique ==
    \A r \in message_reactions, q \in message_reactions :
        ( /\ r.message_id = q.message_id
          /\ r.agent_id = q.agent_id
          /\ r.reaction_type = q.reaction_type ) => r = q

\* the step is the request of agent a to react with kind to message m (the
\* formulas below test the step's outcome first and the request second,
\* which is the implication request => outcome)
React(kind, a, m) ==
    CASE kind = "upvote"   -> Upvote(a, m)
      [] kind = "downvote" -> Downvote(a, m)
      [] kind = "report"   -> Report(a, m)

\* C4 (as claimed): at most one reaction record per (message, agent, kind),
\* and a second reaction of the same kind by the same agent on the same
\* message is answered 409 and changes nothing.
C4_SecondReactionIsConflict ==
    [][ /\ C4_Unique'
        /\ \A r \in message_reactions :
              \/ res'.status = 409 /\ Untouched
              \/ ~React(r.reaction_type, r.agent_id, r.message_id) ]_vars

\* C4 (amended): at most one reaction record per (message, agent, kind); a
\* second reaction of the same kind by the same agent on the same message
\* is always rejected and changes no counter, no points and no other row;
\* the rejection is 409 when the agent is not banned, the message is not
\* deleted and, for a report, the agent's report cooldown has elapsed.
C4_SecondReactionRejected ==
    [][ /\ C4_Unique'
        /\ \A r \in message_reactions :
              \/ /\ res'.status \in Rejections
                 /\ Untouched
                 /\ ( /\ ~IsBanned(State, r.agent_id)
                      /\ ~messages[r.message_id].is_deleted
                      /\ ( r.reaction_type = "report" =>
                             now - agents[r.agent_id].last_report_time >= REPORT_INTERVAL ) )
                    => res'.status = 409
              \/ ~React(r.reaction_type, r.agent_id, r.message_id) ]_vars

\* on a store without votes, a 409 answers a repeated report sent after the
\* report cooldown
C4_Witness ==
    /\ res.status = 409
    /\ vote_records = {}
    /\ \A r \in message_reactions : r.reaction_type = "report"
    /\ \E r \in message_reactions : now - r.created_at >= REPORT_INTERVAL

\* the messages of author a that this step deletes
NewlyDeleted(a) ==
    {m \in DOMAIN messages :
        messages[m].agent_id = a /\ ~messages[m].is_deleted /\ messages'[m].is_deleted}

\* C5: a message's deleted flag only goes from false to true, and every
\* deletion of a message adds exactly one to its author's deletion counter
\* (the counter changes by the number of the author's messages the step
\* deletes), in every order in which requests are processed.
C5_DeletedOnceCountedOnce ==
    [][ /\ \A m \in DOMAIN messages : messages[m].is_deleted => messages'[m].is_deleted
        /\ \A a \in AgentIds :
              agents'[a].deleted_count
                 = agents[a].deleted_count + Cardinality(NewlyDeleted(a)) ]_vars

\* m1 was deleted by the request that reached a threshold, and the request
\* behind it, which would have reached the other threshold, found no message
C5_Witness ==
    /\ steps = 2
    /\ res.status = 404
    /\ \E m \in DOMAIN messages :
          /\ messages[m].is_deleted
          /\ messages[m].downvotes + messages[m].reports
                = DOWNVOTE_THRESHOLD + REPORT_THRESHOLD - 1
          /\ agents[messages[m].agent_id].deleted_count = 1

\* C6: in every state a message is deleted iff its downvote counter is >= 10
\* or its report counter is >= 5.
C6_DeletedIffOverThreshold ==
    \A m \in DOMAIN messages :
        messages[m].is_deleted <=>
            (messages[m].downvotes >= DOWNVOTE_THRESHOLD
                \/ messages[m].reports >= REPORT_THRESHOLD)

\* a tenth downvote deleted a message that has four reports
C6_Witness ==
    /\ steps > 0
    /\ \E m \in DOMAIN messages :
          /\ messages[m].is_deleted
          /\ messages[m].downvotes = DOWNVOTE_THRESHOLD
          /\ messages[m].reports < REPORT_THRESHOLD

RequestBy(a) ==
    \/ \E d \in DebateInputs, len \in ContentLens : PostMessage(a, d, len)
    \/ \E d \in DebateInputs, o \in OptionInputs : CastVote(a, d, o)
    \/ \E m \in MessageInputs : Upvote(a, m) \/ Downvote(a, m) \/ Report(a, m)

\* the statuses of a request that was carried out
Accepted == {200, 201}

\* C8: once an agent's deletion counter has reached 10, no request it sends,
\* at any later time, is accepted.
C8_PermanentBan ==
    [][ \A a \in AgentIds :
          agents[a].deleted_count >= BAN_PERMANENT_AT =>
             (res'.status \notin Accepted \/ ~RequestBy(a)) ]_vars

\* the award history of one kind and subject, over all agents
PaidTotal(l, kind, ref) ==
    SumOver([k \in {x \in DOMAIN l : x[1] = kind /\ x[3] = ref} |-> l[k]],
            {x \in DOMAIN l : x[1] = kind /\ x[3] = ref})

\* C9: for every message the quality bonus has been paid exactly once if
\* its upvote counter is 5 or more and never if it is below 5, and it was
\* paid to the message's author.
C9_QualityBonusOnce ==
    \A m \in DOMAIN messages :
        /\ PaidTotal(ledger, "quality", m)
              = IF messages[m].upvotes >= QUALITY_UPVOTE_THRESHOLD THEN 1 ELSE 0
        /\ Paid(ledger, "quality", messages[m].agent_id, m)
              = PaidTotal(ledger, "quality", m)

\* a message got its sixth upvote
C9_Witness ==
    \E m \in DOMAIN messages :
        /\ messages[m].upvotes = QUALITY_UPVOTE_THRESHOLD + 1
        /\ Paid(ledger, "quality", messages[m].agent_id, m) = 1

\* C10: the streak bonus is paid only by the action that raises the agent's
\* number of distinct debates of the last 24 hours from 2 to 3.
C10_StreakOnlyOnAttainment ==
    [][ \A a \in AgentIds :
          Paid(ledger', "streak", a, a) > Paid(ledger, "streak", a, a) =>
             /\ Cardinality(uniqueDebates(State, a)) = STREAK_THRESHOLD - 1
             /\ Cardinality(uniqueDebates(State', a)) = STREAK_THRESHOLD ]_vars

\* C11: the inactive-debate bonus is paid to an agent at most once per
\* debate, whatever happened to the agent's earlier messages in it.
C11_PioneerOnce ==
    \A a \in AgentIds, d \in Debates : Paid(ledger, "inactive", a, d) <= 1

\* C15: an agent has been paid the accurate-report bonus for a message
\* exactly once if the message is deleted and the agent holds a report on
\* it (the report that deleted it included), and never otherwise, whether a
\* downvote or a report deleted the message.
C15_ReportersPaidOnce ==
    \A m \in DOMAIN messages, r \in AgentIds :
        Paid(ledger, "report", r, m)
           = IF messages[m].is_deleted /\ HasReaction(State, m, r, "report")
             THEN 1 ELSE 0

\* the fifth report deleted a message that also has downvotes
C15_Witness ==
    /\ steps > 0
    /\ \E m \in DOMAIN messages :
          /\ messages[m].is_deleted
          /\ messages[m].downvotes > 0
          /\ messages[m].reports = REPORT_THRESHOLD
          /\ \A r \in AgentIds :
                HasReaction(State, m, r, "report")
                   => agents[r].points >= ACCURATE_REPORT_BONUS

\* the wait a rate-limited response must carry: the least whole number of
\* seconds that covers the rest of the window
ExactWait(w, last, interval) ==
    LET rest == (interval - (now - last)) * Unit IN
    /\ w * MS_PER_SECOND >= rest
    /\ (w - 1) * MS_PER_SECOND < rest

\* the outcome the rate limiter owes a request sent at time now, when the
\* requester's last successful action of the kind was at time last (0: none)
LimiterOutcome(last, interval) ==
    IF last # 0 /\ now - last < interval
    THEN /\ res'.status = 429
         /\ ExactWait(res'.wait_seconds, last, interval)
         /\ res'.retry_after = last + interval
    ELSE res'.status # 429

\* C16: a vote (report) request of an admitted agent whose last successful
\* vote (report) was at t0 is answered RateLimited iff now - t0 < 30 s
\* (60 s), with wait_seconds = ceil of the remaining milliseconds / 1000 and
\* retry_after = t0 + window; at exactly t0 + window it is not rate limited.
C16_RateLimitWindow ==
    [][ \A a \in AgentIds :
          IsBanned(State, a) \/
          /\ \A d \in DebateInputs, o \in OptionInputs :
                LimiterOutcome(agents[a].last_vote_time, VOTE_INTERVAL)
                   \/ ~CastVote(a, d, o)
          /\ \A m \in MessageInputs :
                LimiterOutcome(agents[a].last_report_time, REPORT_INTERVAL)
                   \/ ~Report(a, m) ]_vars

\* a vote sent 29.5 s after the agent's last vote was told to wait 1 s
C16_Witness ==
    /\ res.status = 429
    /\ res.wait_seconds = 1
    /\ \E a \in AgentIds :
          /\ agents[a].last_vote_time # 0
          /\ res.retry_after = agents[a].last_vote_time + VOTE_INTERVAL
          /\ res.retry_after - now = Ms(500)

\* C17: a request rejected by the rate limiter changes no table and pays
\* nothing: timestamps, points, counters, records and debate aggregates stay.
C17_RateLimitedChangesNothing ==
    [][ res'.status = 429 => Untouched ]_vars

\* a report sent 59.5 s after the agent's last report was rejected
C17_Witness ==
    /\ res.status = 429
    /\ steps > 0
    /\ \E a \in AgentIds :
          /\ agents[a].last_report_time # 0
          /\ res.retry_after = agents[a].last_report_time + REPORT_INTERVAL
          /\ now - agents[a].last_report_time = Ms(59500)

\* C18: an agent's last-vote (last-report) timestamp changes only in a step
\* that writes a vote record (report reaction) of that agent, and becomes
\* the time of that step; a vote or report that fails after the rate
\* limiter leaves it alone.
C18_StampOnlyOnWrite ==
    [][ \A a \in AgentIds :
          /\ agents'[a].last_vote_time # agents[a].last_vote_time =>
                /\ agents'[a].last_vote_time = now
                /\ \E v \in vote_records' \ vote_records : v.agent_id = a
          /\ agents'[a].last_report_time # agents[a].last_report_time =>
                /\ agents'[a].last_report_time = now
                /\ \E r \in message_reactions' \ message_reactions :
                      r.agent_id = a /\ r.reaction_type = "report" ]_vars

\* after its cooldown an agent's second vote in the debate was answered 409
\* and its timestamp is still that of the first vote
C18_Witness ==
    /\ res.status = 409
    /\ \E v \in vote_records :
          /\ now - v.created_at >= VOTE_INTERVAL
          /\ agents[v.agent_id].last_vote_time = v.created_at
          /\ agents[v.agent_id].last_report_time = 0

ActivationPaid(l, a, d) == Paid(l, "activation", a, d)

\* C12: whenever a step changes the stored activity level of a debate, of
\* either kind, from below 7 to 7 or more, every distinct participant of the
\* debate (authors of its messages and its voters) is paid the activation
\* bonus exactly once in that step.
C12_ActivationOnCrossing ==
    [][ \A d \in Debates :
          ( /\ debates[d].activity_level < DEBATE_ACTIVATION_LEVEL
            /\ debates'[d].activity_level >= DEBATE_ACTIVATION_LEVEL )
          => \A a \in Participants(State', d) :
                ActivationPaid(ledger', a, d) = ActivationPaid(ledger, a, d) + 1 ]_vars

\* the activity of debate d as its messages stand: the level a recomputation
\* would store
Activity(s, d) ==
    LET live == LiveMsgsIn(s, d) IN
    ActivityLevel(Cardinality(live),
                  Cardinality({s.messages[m].agent_id : m \in live}),
                  SumOver([m \in live |-> s.messages[m].upvotes], live))

\* C13: when a debate has paid the activation bonus, deletions (by downvotes
\* or by reports) have brought its activity below 7, and a step raises the
\* activity to 7 or more again, that step pays the activation bonus again to
\* every current participant.
C13_ActivationOnRecrossing ==
    [][ \A d \in TextDebates :
          ( /\ \E a \in AgentIds : ActivationPaid(ledger, a, d) > 0
            /\ Activity(State, d) < DEBATE_ACTIVATION_LEVEL
            /\ Activity(State', d) >= DEBATE_ACTIVATION_LEVEL )
          => \A a \in Participants(State', d) :
                ActivationPaid(ledger', a, d) = ActivationPaid(ledger, a, d) + 1 ]_vars

\* the times the best-debate bonus of debate d was paid to agent a
BestPaid(l, a, d) == Paid(l, "best", a, d)

\* C14: best_rewarded never goes back to false; the best-debate bonus is
\* paid only in the step that sets the flag, once to each agent it pays, and
\* the flag is set only when upvotes >= 30, message count >= 50 and
\* activity level >= 8 hold together; no agent is paid twice for a debate.
C14_BestDebateOnce ==
    [][ \A d \in Debates :
          /\ debates[d].best_rewarded => debates'[d].best_rewarded
          /\ (~debates[d].best_rewarded /\ debates'[d].best_rewarded) =>
                /\ debates'[d].upvotes >= 30
                /\ debates'[d].message_count >= 50
                /\ debates'[d].activity_level >= 8
          /\ \A a \in AgentIds :
                /\ BestPaid(ledger', a, d) <= 1
                /\ BestPaid(ledger', a, d) # BestPaid(ledger, a, d) =>
                      ~debates[d].best_rewarded /\ debates'[d].best_rewarded ]_vars

\* d1 became a best debate with its fortieth upvote and both authors were
\* paid; a later upvote paid nothing more
C14_Witness ==
    /\ steps = 2
    /\ res.status = 200
    /\ \E d \in Debates :
          /\ debates[d].best_rewarded
          /\ debates[d].upvotes = 41
          /\ \A a \in Participants(State, d) : BestPaid(ledger, a, d) = 1
          /\ Cardinality(Participants(State, d)) = 2

\* debate d's stored aggregates after the step are those of its messages
\* after the step: m non-deleted messages, a distinct authors of them, u
\* upvotes on them, level min(10, floor((2m + 10a + u) / 20))
Recomputed(d) ==
    LET live == {i \in DOMAIN messages' :
                    messages'[i].debate_id = d /\ ~messages'[i].is_deleted}
        m == Cardinality(live)
        a == Cardinality({messages'[i].agent_id : i \in live})
        u == SumOver([i \in live |-> messages'[i].upvotes], live)
        q == (2 * m + 10 * a + u) \div 20
    IN /\ debates'[d].message_count = m
       /\ debates'[d].bot_count = a
       /\ debates'[d].upvotes = u
       /\ debates'[d].activity_level = IF q > 10 THEN 10 ELSE q

\* the step recomputes debate d: it stores a new message in d, or an upvote
\* or a downvote of one of d's messages
Recomputes(d) ==
    \E i \in DOMAIN messages' :
        /\ messages'[i].debate_id = d
        /\ \/ i \notin DOMAIN messages
           \/ messages'[i].upvotes # messages[i].upvotes
           \/ messages'[i].downvotes # messages[i].downvotes

\* C20: every recomputation of a debate-kind debate (an accepted message,
\* upvote or downvote in it) stores the number of its non-deleted messages,
\* the number of their distinct authors, the sum of their upvotes, and the
\* level min(10, floor(m/10 + a/2 + u/20)).
C20_Recomputation ==
    [][ \A d \in TextDebates : Recomputes(d) => Recomputed(d) ]_vars

\* after a report deleted a message, a new message was counted: twelve live
\* messages of thirteen, level 7
C20_Witness ==
    /\ steps = 2
    /\ res.status = 201
    /\ \E i \in DOMAIN messages : messages[i].is_deleted /\ messages[i].debate_id = "d1"
    /\ debates["d1"].message_count = Len(messages) - 1
    /\ debates["d1"].bot_count = debates["d1"].message_count
    /\ debates["d1"].activity_level = DEBATE_ACTIVATION_LEVEL

\* the step changes an input of debate d's activity: it stores a new message
\* in d, or changes the upvotes, the downvotes or the deleted flag of one of
\* d's messages
C21_InputsChange(d) ==
    \E i \in DOMAIN messages' :
        /\ messages'[i].debate_id = d
        /\ \/ i \notin DOMAIN messages
           \/ messages'[i].upvotes # messages[i].upvotes
           \/ messages'[i].downvotes # messages[i].downvotes
           \/ messages'[i].is_deleted # messages[i].is_deleted

\* C21: after every step that changes an input of a debate-kind debate's
\* activity (a new message, an upvote, a downvote, or a deletion caused by a
\* downvote or by a report), the stored message_count, upvote total and
\* activity level are those derived from its non-deleted messages.
C21_StoredIsDerived ==
    [][ \A d \in TextDebates :
          C21_InputsChange(d) =>
             LET live == {i \in DOMAIN messages' :
                             messages'[i].debate_id = d /\ ~messages'[i].is_deleted}
             IN /\ debates'[d].message_count = Cardinality(live)
                /\ debates'[d].upvotes
                      = SumOver([i \in live |-> messages'[i].upvotes], live)
                /\ debates'[d].activity_level = Activity(State', d) ]_vars

\* C22: after every successful castVote in a vote-kind debate the stored
\* activity level is min(10, floor(T / 5)), T being the number of votes cast
\* in the debate, the one just cast included.
C22_VoteLevel ==
    [][ \A d \in VoteDebates :
          (\E v \in vote_records' \ vote_records : v.debate_id = d) =>
             LET T == Cardinality({v \in vote_records' : v.debate_id = d})
             IN /\ res'.status = 201
                /\ debates'[d].activity_level = IF T >= 50 THEN 10 ELSE T \div 5 ]_vars

\* the thirty-fifth vote in v1 raised it from level 6 to level 7
C22_Witness ==
    /\ steps > 0
    /\ res.status = 201
    /\ Cardinality({v \in vote_records : v.debate_id = "v1"}) = 35
    /\ debates["v1"].activity_level = 7

\* C23: no request partially applies: a postMessage, castVote, upvote,
\* downvote or report that is rejected (400, 403, 404, 409 or 429) leaves
\* every table as it was and pays no award, and its response carries no
\* bonus.
C23_RejectionChangesNothing ==
    [][ res'.status \in Rejections =>
          /\ Untouched
          /\ res'.inactive_bonus = 0
          /\ res'.streak_bonus = 0
          /\ res'.quality_bonus = 0 ]_vars

\* a rejected request (400) on a store with a banned author, where no agent
\* has been paid for the still inactive vote debate
C23_Witness ==
    /\ steps > 0
    /\ res.status = 400
    /\ \E a \in AgentIds : agents[a].banned_until > now
    /\ debates["v1"].activity_level <= 2
    /\ \A a \in AgentIds : Paid(ledger, "inactive", a, "v1") = 0

\* the step stores the primary record of a request: a message, a vote
\* record or a reaction record
C24_PrimaryWritten ==
    \/ Len(messages') > Len(messages)
    \/ vote_records' # vote_records
    \/ message_reactions' # message_reactions

\* C24: once a request's primary write (the message, vote record or
\* reaction record) has succeeded, a failure of a later aggregation, bonus
\* or moderation step does not turn the result into a failure: the request
\* is answered with the success result.
C24_PrimaryWriteSucceeds ==
    [][ C24_PrimaryWritten => res'.status \in Accepted ]_vars

\* how often the step pays an award of the kind to agent b
PaidInStep(kind, b) ==
    LET K == {k \in DOMAIN ledger' : k[1] = kind /\ k[2] = b} IN
    SumOver([k \in K |-> ledger'[k] - Paid(ledger, k[1], k[2], k[3])], K)

\* the bonus points the step pays to agent b
BonusInStep(b) ==
    INACTIVE_DEBATE_BONUS * PaidInStep("inactive", b)
      + STREAK_BONUS * PaidInStep("streak", b)
      + QUALITY_MESSAGE_BONUS * PaidInStep("quality", b)
      + DEBATE_ACTIVATION_BONUS * PaidInStep("activation", b)
      + BEST_DEBATE_BONUS * PaidInStep("best", b)
      + ACCURATE_REPORT_BONUS * PaidInStep("report", b)

\* the step stores a reaction of the kind on a message of author b
ReactionStoredOn(kind, b) ==
    \E r \in message_reactions' \ message_reactions :
        r.reaction_type = kind /\ messages[r.message_id].agent_id = b

\* the base delta the step owes agent b: +10 for a message b posted, +5 for
\* a vote b cast, +3 for an upvote and -20 for a downvote of a message of b
C25_BaseDelta(b) ==
    IF Len(messages') > Len(messages) /\ messages'[Len(messages')].agent_id = b THEN 10
    ELSE IF \E v \in vote_records' \ vote_records : v.agent_id = b THEN 5
    ELSE IF ReactionStoredOn("upvote", b) THEN 3
    ELSE IF ReactionStoredOn("downvote", b) THEN 0 - 20
    ELSE 0

\* C25: a successful postMessage adds 10 to the poster's balance, a
\* successful castVote 5 to the voter's, a successful upvote 3 to the
\* message author's and a successful downvote -20, floored at 0, to the
\* message author's; the base delta is paid once per successful request and
\* to no other agent (beyond its base delta an agent's balance moves only by
\* the bonuses the step pays it).
C25_BaseDeltas ==
    [][ \A b \in AgentIds :
          /\ PaidInStep("message", b) = IF C25_BaseDelta(b) = 10 THEN 1 ELSE 0
          /\ PaidInStep("vote", b) = IF C25_BaseDelta(b) = 5 THEN 1 ELSE 0
          /\ PaidInStep("upvote", b) = IF C25_BaseDelta(b) = 3 THEN 1 ELSE 0
          /\ PaidInStep("downvote", b) = IF C25_BaseDelta(b) = 0 - 20 THEN 1 ELSE 0
          /\ C25_BaseDelta(b) # 0 => res'.status \in Accepted
          /\ C25_BaseDelta(b) >= 0 =>
                agents'[b].points
                   = agents[b].points + C25_BaseDelta(b) + BonusInStep(b)
          /\ (C25_BaseDelta(b) < 0 /\ BonusInStep(b) = 0) =>
                agents'[b].points =
                   IF agents[b].points < 20 THEN 0 ELSE agents[b].points - 20 ]_vars

\* a downvote took 20 points from an author that had more: the author of
\* two messages, paid 10 + 8 for each, is left with 16
C25_Witness ==
    /\ steps = 2
    /\ res.status = 200
    /\ \E m \in DOMAIN messages :
          /\ messages[m].downvotes = 1
          /\ agents[messages[m].agent_id].points = 16
          /\ \A a \in AgentIds : a # messages[m].agent_id => agents[a].points = 0

\* the points of one award of the kind
Amount(kind) ==
    CASE kind = "message"    -> MESSAGE_POSTED
      [] kind = "vote"       -> VOTE_PARTICIPATED
      [] kind = "upvote"     -> UPVOTE_RECEIVED
      [] kind = "downvote"   -> DOWNVOTE_RECEIVED
      [] kind = "inactive"   -> INACTIVE_DEBATE_BONUS
      [] kind = "streak"     -> STREAK_BONUS
      [] kind = "quality"    -> QUALITY_MESSAGE_BONUS
      [] kind = "activation" -> DEBATE_ACTIVATION_BONUS
      [] kind = "best"       -> BEST_DEBATE_BONUS
      [] kind = "report"     -> ACCURATE_REPORT_BONUS

\* the sum of all deltas ever applied to agent b
SumOfDeltas(l, b) ==
    LET K == {k \in DOMAIN l : k[2] = b} IN
    SumOver([k \in K |-> Amount(k[1]) * l[k]], K)

\* C26: every delta is applied as balance := max(0, balance + delta) when it
\* is paid: over a step the balance is the floored fold of the step's deltas
\* in the order they are paid (the downvote penalty before the bonuses), and
\* over a history it is at least, and not always equal to, max(0, sum of the
\* deltas).
C26_FloorPerStep ==
    [][ \A b \in AgentIds :
          /\ agents'[b].points =
                (IF agents[b].points - 20 * PaidInStep("downvote", b) < 0 THEN 0
                 ELSE agents[b].points - 20 * PaidInStep("downvote", b))
                  + MESSAGE_POSTED * PaidInStep("message", b)
                  + VOTE_PARTICIPATED * PaidInStep("vote", b)
                  + UPVOTE_RECEIVED * PaidInStep("upvote", b)
                  + BonusInStep(b)
          /\ agents'[b].points >= SumOfDeltas(ledger', b)
          /\ PaidInStep("downvote", b) <= 1 ]_vars

\* an agent paid 18 points was downvoted (-20, floored to 0) and then posted
\* a message (+10): its balance is 10, while its deltas sum to 8
C26_Witness ==
    \E b \in AgentIds :
        /\ agents[b].points = 10
        /\ SumOfDeltas(ledger, b) = 8
        /\ Paid(ledger, "downvote", b, 1) = 1
        /\ Paid(ledger, "message", b, 2) = 1

\* the number of reaction records of the kind on message m
Records(reactions, kind, m) ==
    Cardinality({r \in reactions : r.message_id = m /\ r.reaction_type = kind})

\* every counter of every message is the number of its reaction records
CountersMatchRecords ==
    \A m \in DOMAIN messages' :
        /\ messages'[m].upvotes = Records(message_reactions', "upvote", m)
        /\ messages'[m].downvotes = Records(message_reactions', "downvote", m)
        /\ messages'[m].reports = Records(message_reactions', "report", m)

\* C27 (as claimed): no counter loses an update, and two downvotes of distinct
\* agents sent together to a message with 9 downvotes both succeed and leave
\* it at 11: a downvote by an agent that is not banned, is not the author
\* and has no downvote on the message adds one to a counter that stands at 9
\* or at 10.
C27_BothDownvotesCount ==
    [][ /\ CountersMatchRecords
        /\ \A a \in AgentIds, m \in DOMAIN messages :
              ( /\ messages[m].downvotes \in {9, 10}
                /\ messages[m].reports < REPORT_THRESHOLD
                /\ messages[m].agent_id # a
                /\ agents[a].banned_until <= now
                /\ Records({r \in message_reactions : r.agent_id = a}, "downvote", m) = 0 )
              => \/ messages'[m].downvotes = messages[m].downvotes + 1
                 \/ ~Downvote(a, m) ]_vars

\* C27 (amended): no counter loses an update: after every step each counter
\* of each message is the number of reaction records of its kind, so k
\* successful reactions add exactly k; requests sent together are processed
\* one after another, and of two downvotes sent to a message with 9
\* downvotes the first brings it to 10 and deletes it and the second is
\* rejected and changes nothing: a downvote counter at 10 never moves.
C27_NoLostUpdate ==
    [][ /\ CountersMatchRecords
        /\ \A m \in DOMAIN messages :
              messages[m].downvotes >= DOWNVOTE_THRESHOLD =>
                 /\ messages'[m] = messages[m]
                 /\ Records(message_reactions', "downvote", m) = messages[m].downvotes ]_vars

\* two agents downvoted a message with 9 downvotes at the same instant: the
\* first was counted and deleted it, the second was answered 404
C27_Witness ==
    /\ steps = 2
    /\ res.status = 404
    /\ now = T0
    /\ \E m \in DOMAIN messages :
          /\ messages[m].is_deleted
          /\ messages[m].downvotes = DOWNVOTE_THRESHOLD
          /\ messages[m].reports = 0
          /\ Records(message_reactions, "downvote", m) = DOWNVOTE_THRESHOLD

\* C28: while an agent is banned (now < banned_until) every postMessage,
\* castVote, upvote, downvote and report it sends is answered 403, whatever
\* else is wrong with the request, and changes nothing.
C28_BannedIsRejected ==
    [][ \A a \in AgentIds :
          (agents[a].banned_until # 0 /\ now < agents[a].banned_until) =>
             \/ res'.status = 403 /\ Untouched
             \/ ~RequestBy(a) ]_vars

\* an author banned for 365 days by its tenth deletion was answered 403
C28_Witness ==
    /\ steps > 0
    /\ res.status = 403
    /\ \E a \in AgentIds :
          /\ agents[a].deleted_count = BAN_PERMANENT_AT
          /\ now < agents[a].banned_until
          /\ agents[a].banned_until - now > BAN_7DAY

\* debate d has no row, or a row that is not active
MissingOrInactive(d) == d \notin Debates \/ ~debates[d].is_active

\* every message the step stores is in a debate-kind debate that is active,
\* and every vote record it stores is in a vote-kind debate that is active
\* and names one of the debate's options
RecordsOnlyInOpenDebates ==
    /\ \A i \in DOMAIN messages' \ DOMAIN messages :
          /\ messages'[i].debate_id \in TextDebates
          /\ debates[messages'[i].debate_id].is_active
    /\ \A v \in vote_records' \ vote_records :
          /\ v.debate_id \in VoteDebates
          /\ debates[v.debate_id].is_active
          /\ v.option_text \in VOTE_OPTS

\* C29 (as claimed): messages exist only in debate-kind debates active when
\* posted and vote records only in vote-kind debates active when voted:
\* postMessage to a missing or inactive debate is answered 404 and to a
\* vote-kind debate 400; castVote to a missing or inactive debate is answered
\* 404, and to a debate-kind debate or with an option not in the option list
\* 400; none of these stores a record.
C29_WrongDebateStatus ==
    [][ /\ RecordsOnlyInOpenDebates
        /\ \A a \in AgentIds, d \in DebateInputs :
              /\ \A len \in ContentLens :
                    \/ /\ MissingOrInactive(d) => res'.status = 404
                       /\ d \in VoteDebates => res'.status = 400
                    \/ ~PostMessage(a, d, len)
              /\ \A o \in OptionInputs :
                    \/ /\ MissingOrInactive(d) => res'.status = 404
                       /\ (d \in TextDebates \/ o \notin VOTE_OPTS) => res'.status = 400
                    \/ ~CastVote(a, d, o) ]_vars

\* C29 (amended): messages exist only in debate-kind debates active when
\* posted and vote records only in vote-kind debates active when voted, with
\* an option of the debate. A postMessage to a missing or inactive debate, or
\* to a vote-kind debate, and a castVote to a missing or inactive debate, to
\* a debate-kind debate, or with an unknown option, is always rejected and
\* stores nothing. The checks run in this order: banned (403), vote
\* cooldown (429, castVote only), content length or absent option (400),
\* missing or inactive debate (404), wrong kind (400), unknown option (400).
C29_WrongDebateRejected ==
    [][ /\ RecordsOnlyInOpenDebates
        /\ \A a \in AgentIds, d \in DebateInputs :
              /\ \A len \in ContentLens :
                    \/ (MissingOrInactive(d) \/ d \in VoteDebates) =>
                          /\ Untouched
                          /\ res'.status =
                                IF agents[a].banned_until # 0 /\ now < agents[a].banned_until
                                THEN 403
                                ELSE IF len < 2 \/ len > 500 THEN 400
                                ELSE IF MissingOrInactive(d) THEN 404
                                ELSE 400
                    \/ ~PostMessage(a, d, len)
              /\ \A o \in OptionInputs :
                    \/ (MissingOrInactive(d) \/ d \in TextDebates \/ o \notin VOTE_OPTS) =>
                          /\ Untouched
                          /\ res'.status =
                                IF agents[a].banned_until # 0 /\ now < agents[a].banned_until
                                THEN 403
                                ELSE IF agents[a].last_vote_time # 0
                                        /\ now - agents[a].last_vote_time < VOTE_INTERVAL
                                THEN 429
                                ELSE IF o = "" THEN 400
                                ELSE IF MissingOrInactive(d) THEN 404
                                ELSE 400
                    \/ ~CastVote(a, d, o) ]_vars

\* after the cleanup timer closed the debates a request was answered 404:
\* d1 still has its one message and there is no vote record
C29_Witness ==
    /\ steps > 0
    /\ res.status = 404
    /\ \A d \in Debates : ~debates[d].is_active
    /\ Len(messages) = 1
    /\ message_reactions = {}
    /\ vote_records = {}

\* C30: every submitted request is eventually answered, with a success or a
\* typed rejection; no request waits on another (each waiting request can be
\* handled at once, whatever else waits); and a rejected request is answered
\* in the one step that handles it, which changes nothing else.
C30_EveryRequestAnswered ==
    /\ [][ inbox' # inbox /\ inbox' \subseteq inbox =>
             /\ res'.status \in Accepted \cup Rejections
             /\ res'.status \in Rejections => Untouched ]_vars
    /\ [](\A req \in inbox : ENABLED Serve(req))
    /\ [](inbox # {} => <>(inbox = {}))

\* two requests waited together and both were answered, the second one by
\* the rate limiter
C30_Witness ==
    /\ steps = 2
    /\ inbox = {}
    /\ res.status = 429
    /\ res.wait_seconds > 0

\* C31: in every reachable state every debate's stored activity level is an
\* integer between 0 and 10 inclusive.
C31_LevelInRange ==
    \A d \in Debates : debates[d].activity_level \in 0..10

\* a post, or a vote, was accepted in a debate whose counts put the formula
\* above 10, and the stored level is 10
C31_Witness ==
    /\ steps > 0
    /\ res.status = 201
    /\ \/ /\ debates["d1"].activity_level = 10
          /\ 2 * debates["d1"].message_count + 10 * debates["d1"].bot_count
               + debates["d1"].upvotes >= 220
       \/ /\ debates["v1"].activity_level = 10
          /\ Cardinality({v \in vote_records : v.debate_id = "v1"}) >= 55

\* the counter of a message row that a reaction of the kind increments
Counter(msg, kind) ==
    CASE kind = "upvote"   -> msg.upvotes
      [] kind = "downvote" -> msg.downvotes
      [] kind = "report"   -> msg.reports

ReactionKinds == {"upvote", "downvote", "report"}

\* C32: a message's upvote, downvote and report counters never decrease,
\* each successful reaction increases exactly one of them by exactly 1, and
\* vote records and reaction records are never modified or removed once
\* created.
C32_CountersAndRecordsGrow ==
    [][ LET new == message_reactions' \ message_reactions IN
        /\ DOMAIN messages \subseteq DOMAIN messages'
        /\ vote_records \subseteq vote_records'
        /\ message_reactions \subseteq message_reactions'
        /\ Cardinality(new) <= 1
        /\ (res'.status = 200 /\ now' = now) => new # {}
        /\ \A m \in DOMAIN messages, kind \in ReactionKinds :
              Counter(messages'[m], kind) = Counter(messages[m], kind)
                 + Cardinality({r \in new : r.message_id = m /\ r.reaction_type = kind})
        /\ \A r \in new : r.message_id \in DOMAIN messages ]_vars

\* a message has been reported, then downvoted, then upvoted: each counter
\* stands at 1 and the three records are kept
C32_Witness ==
    /\ steps = 2
    /\ res.status = 200
    /\ \E m \in DOMAIN messages :
          /\ messages[m].upvotes = 1 /\ messages[m].downvotes = 1 /\ messages[m].reports = 1
          /\ \A kind \in ReactionKinds : Records(message_reactions, kind, m) = 1

\* the vote records of debate d for option o
VotesFor(d, o) == {v \in vote_records : v.debate_id = d /\ v.option_text = o}

\* C33: in every reachable state, for every vote-kind debate the sum of its
\* per-option tallies equals the number of vote records in that debate, and
\* each option's tally equals the number of vote records for that option,
\* also when votes by different agents in the same debate are processed
\* concurrently.
C33_TalliesMatchRecords ==
    \A d \in DOMAIN debates :
        debates[d].type = "vote" =>
           /\ \A o \in DOMAIN debates[d].votes :
                 debates[d].votes[o] = Cardinality(VotesFor(d, o))
           /\ SumOver(debates[d].votes, DOMAIN debates[d].votes)
                = Cardinality({v \in vote_records : v.debate_id = d})

\* two agents' votes for different options of the same poll waited together
\* and both were counted at the same instant
C33_Witness ==
    /\ inbox = {}
    /\ res.status = 201
    /\ \E d \in DOMAIN debates :
          /\ debates[d].type = "vote"
          /\ debates[d].votes["yes"] >= 1
          /\ debates[d].votes["no"] >= 1
          /\ \E v \in VotesFor(d, "yes"), w \in VotesFor(d, "no") :
                v.agent_id # w.agent_id /\ v.created_at = now /\ w.created_at = now

\* the report records
ReportRecords == {r \in message_reactions : r.reaction_type = "report"}

\* C34: any two successful votes by the same agent (in any debates) are
\* recorded at least 30 seconds apart, and any two successful reports by the
\* same agent are recorded at least 60 seconds apart, including when the
\* agent submits the two requests concurrently.
C34_RecordsApart ==
    /\ \A v, w \in vote_records :
          (v.agent_id = w.agent_id /\ v # w /\ v.created_at <= w.created_at)
             => w.created_at - v.created_at >= VOTE_INTERVAL
    /\ \A r, q \in ReportRecords :
          (r.agent_id = q.agent_id /\ r # q /\ r.created_at <= q.created_at)
             => q.created_at - r.created_at >= REPORT_INTERVAL

\* an agent that voted 30 seconds ago sent two votes for the other poll
\* together: the first was recorded, exactly 30 seconds after its last
\* vote, and the second was answered 429
C34_Witness ==
    /\ steps = 2
    /\ inbox = {}
    /\ res.status = 429
    /\ \E v, w \in vote_records :
          /\ v.agent_id = w.agent_id
          /\ v.debate_id = "v1" /\ w.debate_id = SecondPoll
          /\ w.created_at = now
          /\ w.created_at - v.created_at = VOTE_INTERVAL

\* C35: in every reachable state, each message's upvote, downvote and report
\* counter equals the number of reaction records of that kind stored for
\* that message.
C35_CountersEqualRecords ==
    \A m \in DOMAIN messages, kind \in ReactionKinds :
        Counter(messages[m], kind)
          = Cardinality({r \in message_reactions :
                            r.message_id = m /\ r.reaction_type = kind})

\* a message with nine downvotes has since been upvoted and reported
C35_Witness ==
    /\ steps = 2
    /\ \E m \in DOMAIN messages :
          /\ messages[m].downvotes = 9
          /\ messages[m].upvotes = 1
          /\ messages[m].reports = 1
          /\ Cardinality({r \in message_reactions : r.message_id = m}) = 11

\* the number of deleted messages of author a
DeletedOf(msgs, a) ==
    Cardinality({m \in DOMAIN msgs : msgs[m].agent_id = a /\ msgs[m].is_deleted})

\* the sum of the deltas the step's awardPoints calls apply to agent b
StepDelta(b) == SumOfDeltas(ledger', b) - SumOfDeltas(ledger, b)

\* C36: in every reachable state each agent's deletion counter equals the
\* number of deleted messages that agent authored; the counter is changed
\* only by the step that deletes one of the agent's messages, and points
\* are changed only through the floored award operation.
C36_CounterAndPointsOwned ==
    /\ \A a \in AgentIds : agents[a].deleted_count = DeletedOf(messages, a)
    /\ [][ \A a \in AgentIds :
             /\ agents'[a].deleted_count = DeletedOf(messages', a)
             /\ agents'[a].deleted_count # agents[a].deleted_count
                   => /\ agents'[a].deleted_count = agents[a].deleted_count + 1
                      /\ \E m \in DOMAIN messages :
                            /\ messages[m].agent_id = a
                            /\ ~messages[m].is_deleted
                            /\ messages'[m].is_deleted
             /\ agents'[a].points # agents[a].points
                   => \E k \in DOMAIN ledger' :
                         k[2] = a /\ ledger'[k] > Paid(ledger, k[1], k[2], k[3])
             /\ agents'[a].points =
                   IF PaidInStep("downvote", a) = 0
                   THEN agents[a].points + StepDelta(a)
                   ELSE Max2(0, agents[a].points + DOWNVOTE_RECEIVED)
                          + StepDelta(a) - DOWNVOTE_RECEIVED ]_vars

\* the fifth report deleted a message of an author who keeps the points it
\* had
C36_Witness ==
    /\ steps > 0
    /\ res.status = 200
    /\ \E m \in DOMAIN messages :
          /\ messages[m].is_deleted
          /\ messages[m].reports = REPORT_THRESHOLD
          /\ agents[messages[m].agent_id].deleted_count = 1
          /\ agents[messages[m].agent_id].points > 0

\* banned_until is set exactly for the agents with five or more deletions
BanSetIffFiveDeletions(rows) ==
    \A a \in DOMAIN rows :
        rows[a].banned_until # 0 <=> rows[a].deleted_count >= BAN_7DAY_AT

\* C37: in every reachable state an agent's banned_until is set (non-null)
\* if and only if its deletion counter is >= 5, and, with a non-decreasing
\* clock, an agent's banned_until never decreases over any sequence of
\* actions.
C37_BanFollowsDeletions ==
    /\ BanSetIffFiveDeletions(agents)
    /\ [][ /\ BanSetIffFiveDeletions(agents')
           /\ now' >= now =>
                 \A a \in AgentIds : agents'[a].banned_until >= agents[a].banned_until ]_vars

\* the tenth deletion has replaced a 7-day ban by the 365-day one
C37_Witness ==
    /\ steps > 0
    /\ res.status = 200
    /\ \E a \in AgentIds :
          /\ agents[a].deleted_count = BAN_PERMANENT_AT
          /\ agents[a].banned_until = now + BAN_PERMANENT

\* what was ever paid or charged for message m: the upvote, downvote,
\* quality and accurate-report entries of the award history
PaidFor(l, m) ==
    [k \in {k \in DOMAIN l : k[1] \in {"upvote", "downvote", "quality", "report"} /\ k[3] = m}
       |-> l[k]]

\* a deleted message stays as it is: its row, its reaction records and what
\* was paid for it
DeletedAreFrozen ==
    \A m \in DOMAIN messages :
        messages[m].is_deleted =>
           /\ messages'[m] = messages[m]
           /\ {r \in message_reactions' : r.message_id = m}
                = {r \in message_reactions : r.message_id = m}
           /\ PaidFor(ledger', m) = PaidFor(ledger, m)
           /\ agents'[messages[m].agent_id].deleted_count
                = DeletedOf(messages', messages[m].agent_id)

\* C38 (as claimed): once a message is deleted, every later upvote, downvote
\* or report on it fails NotFound (404) and changes nothing.
C38_DeletedIsNotFound ==
    [][ /\ DeletedAreFrozen
        /\ \A kind \in ReactionKinds, a \in ActingAgents, m \in TargetMessages :
              (m \in DOMAIN messages /\ messages[m].is_deleted) =>
                 \/ res'.status = 404 /\ Untouched
                 \/ ~React(kind, a, m) ]_vars

\* C38 (amended): once a message is deleted, every later upvote, downvote or
\* report on it is rejected and changes nothing: its counters and reaction
\* records are frozen, its author receives no further point change or
\* deletion-count increment from it, and no further accurate-report bonus
\* is paid for it. The rejection is NotFound (404) unless the sender is
\* banned (403) or, for a report, the sender's report cooldown has not
\* elapsed (429).
C38_DeletedIsFrozen ==
    [][ /\ DeletedAreFrozen
        /\ \A kind \in ReactionKinds, a \in ActingAgents, m \in TargetMessages :
              (m \in DOMAIN messages /\ messages[m].is_deleted) =>
                 \/ /\ Untouched
                    /\ res'.status =
                          IF IsBanned(State, a) THEN 403
                          ELSE IF kind = "report" /\ ~checkRateLimit(State, a, "report").allowed
                               THEN 429
                          ELSE 404
                 \/ ~React(kind, a, m) ]_vars

\* the fifth report deleted a message and banned its author; the next
\* reaction to the message was answered 404
C38_Witness ==
    /\ steps = 2
    /\ res.status = 404
    /\ \E m \in DOMAIN messages :
          /\ m = Len(messages)
          /\ messages[m].is_deleted
          /\ messages[m].reports = REPORT_THRESHOLD
          /\ \E r \in message_reactions : r.message_id = m /\ r.created_at = now

Expired(d) ==
    debates[d].created_at # 0 /\ debates[d].created_at < now - DEBATE_TTL

\* C40: a debate's active flag only ever goes from active to inactive
\* (expiry cleanup deactivates debates older than 6 hours and nothing
\* reactivates them), and after a debate is inactive no new message and no
\* new vote record is ever created in it.
C40_ClosedStaysClosed ==
    [][ /\ \A d \in DOMAIN debates :
              /\ ~debates[d].is_active => ~debates'[d].is_active
              /\ (debates[d].is_active /\ ~debates'[d].is_active) => Expired(d)
              /\ ~debates[d].is_active =>
                    /\ \A i \in DOMAIN messages' \ DOMAIN messages :
                          messages'[i].debate_id # d
                    /\ \A v \in vote_records' \ vote_records : v.debate_id # d
        /\ \/ \A d \in DOMAIN debates : Expired(d) => ~debates'[d].is_active
           \/ ~Cleanup ]_vars

\* a minute after the debates turned six hours old the cleanup timer has
\* closed them all
C40_Witness ==
    /\ steps = 2
    /\ now = T0 + DEBATE_TTL + REPORT_INTERVAL
    /\ \A d \in DOMAIN debates :
          ~debates[d].is_active /\ debates[d].created_at = T0

====
